---------------------------- MODULE Spec2Model ----------------------------
(*************************************************************************)
(* The chained error records of the Gnuastro library (lib/error.c,       *)
(* gnuastro/error.h) and the program-side boundary guard                 *)
(* (gnuastro/errorinprogram.h).                                          *)
(*                                                                       *)
(* The heap is the sequence of every gal_error_t ever allocated: node    *)
(* identifiers are positions in 'heap', 0 is the NULL pointer.  lib/     *)
(* error.c never calls free() on a node, so the heap only grows.  'err'  *)
(* is the caller's chain pointer (gal_error_t *err).  'stderr' holds the *)
(* lines that the most recent call wrote to the standard error stream,   *)
(* 'ret' what it returned and 'last' which call it was and with which    *)
(* arguments.  'status' is "running" until a call ends the process.      *)
(*                                                                       *)
(* Allocation (calloc, gal_checkset_allocate_copy) is taken to succeed.  *)
(*************************************************************************)
EXTENDS Integers, Sequences, FiniteSets, TLC

VARIABLES heap, err, status, stderr, ret, last

vars == <<heap, err, status, stderr, ret, last>>

--------------------------------------------------------------------------
(* Bounds of the model. *)

\* Number of gal_error_t nodes the process may allocate in all.
MaxAlloc == 6

\* Length up to which the callers grow a chain.
MaxLen == 3

--------------------------------------------------------------------------
(* C values. *)

\* The NULL pointer to a gal_error_t.
NULL == 0

\* The NULL pointer to a string (char *); every other string is text.
NULLSTR == "(NULL)"

\* No value (a void function, or a call that ended the process).
VOID == "void"

RUNNING == "running"

EXIT_FAILURE == "EXIT_FAILURE"

--------------------------------------------------------------------------
(* Walking a chain. *)

\* The nodes of the chain that starts at 'e' in the heap 'h', from the head
\* on, following 'next' to NULL.
RECURSIVE Nodes(_, _)
Nodes(h, e) == IF e = NULL THEN <<>> ELSE <<e>> \o Nodes(h, h[e].next)

\* The elements of a sequence.
Range(s) == { s[i] : i \in DOMAIN s }

--------------------------------------------------------------------------
(* Integer helpers for the bit operations of C on non-negative values    *)
(* below 2^31 (where int and uint32_t agree).                            *)

RECURSIVE BitOr(_, _)
BitOr(a, b) ==
  IF a = 0 THEN b
  ELSE IF b = 0 THEN a
  ELSE (IF a % 2 = 1 \/ b % 2 = 1 THEN 1 ELSE 0) + 2 * BitOr(a \div 2, b \div 2)

ShiftLeft(a, n) == a * (2 ^ n)

ShiftRight(a, n) == a \div (2 ^ n)

\* x & 255
Low8(x) == x % 256

\* #define GAL_ERROR_BITSET(lib_code, code, is_warning)
GAL_ERROR_BITSET(lib_code, code, is_warning) ==
  BitOr(BitOr(ShiftLeft(lib_code, 16), ShiftLeft(code, 8)), is_warning)

--------------------------------------------------------------------------
(* Inputs the callers draw from. *)

\* Error identifiers given to gal_error_check: a breaking error, the same
\* code as a warning of another library, and another code of the first
\* library.
CheckBitstrings ==
  { GAL_ERROR_BITSET(1, 5, 0), GAL_ERROR_BITSET(99, 5, 1),
    GAL_ERROR_BITSET(1, 2, 0) }

\* Arguments (back_msg, bitstring) given to gal_error_add_back_msg: one
\* identifier with two messages, one message with two identifiers, and no
\* message with either identifier.
BackArgs ==
  { <<"division by zero", GAL_ERROR_BITSET(1, 5, 0)>>,
    <<"overflow", GAL_ERROR_BITSET(1, 5, 0)>>,
    <<"overflow", GAL_ERROR_BITSET(99, 7, 3)>>,
    <<NULLSTR, GAL_ERROR_BITSET(1, 5, 0)>>,
    <<NULLSTR, GAL_ERROR_BITSET(99, 7, 3)>> }

FrontMessages == {"compute_ratio", "caller"}

--------------------------------------------------------------------------
(* Printing. *)

\* enum gal_error_library_codes, GAL_ERROR_LIB_ARITHMETIC (1) to
\* GAL_ERROR_LIB_WCS (41), each with the name gal_error_print_lib_name
\* returns for it.
LibNames ==
  <<
     "arithmetic.h", "array.h", "binary.h", "blank.h",
     "box.h", "color.h", "convolve.h", "cosmology.h",
     "data.h", "dimension.h", "ds9.h", "eps.h",
     "error.h", "errorinprogram.h", "fit.h", "fits.h",
     "git.h", "interpolate.h", "jpeg.h", "kdtree.h",
     "label.h", "list.h", "match.h", "pdf.h",
     "permutation.h", "pointer.h", "polygon.h", "pool.h",
     "python.h", "qsort.h", "speclines.h", "statistics.h",
     "table.h", "threads.h", "tiff.h", "tile.h",
     "txt.h", "type.h", "units.h", "warp.h",
     "wcs.h"
  >>

\* The bug-report address of config.h, as gal_error_print_lib_name appends
\* it to its 'default' string.
PACKAGE_BUGREPORT == "PACKAGE_BUGREPORT"

gal_error_print_lib_name(lib_code) ==
  IF lib_code \in 1..Len(LibNames)
  THEN LibNames[lib_code]
  ELSE "NOT-DEFINED! A bug! Please contact us at " \o PACKAGE_BUGREPORT

\* gal_error_to_string as it would be without its test of 'front_msg'.
gal_error_to_string_no_front(n) ==
  LET stat == IF n.is_warning = 0 THEN "[BREAKING]" ELSE "[WARNING]"
  IN  gal_error_print_lib_name(n.lib_code)
        \o ": " \o ToString(n.code) \o ": " \o n.back_msg \o " " \o stat

\* gal_error_to_string(err, verbose) on the node 'n' ('verbose' is unused).
gal_error_to_string(n) ==
  LET stat == IF n.is_warning = 0 THEN "[BREAKING]" ELSE "[WARNING]"
  IN  IF n.front_msg # NULLSTR
      THEN n.front_msg \o ": " \o gal_error_print_lib_name(n.lib_code)
             \o ": " \o ToString(n.code) \o ": " \o n.back_msg \o " " \o stat
      ELSE gal_error_print_lib_name(n.lib_code)
             \o ": " \o ToString(n.code) \o ": " \o n.back_msg \o " " \o stat

\* The loop below as it would be if every line were made from the head 'e'.
RECURSIVE to_stderr_all_loop_head(_, _, _)
to_stderr_all_loop_head(h, e, tmperr) ==
  IF tmperr = NULL
  THEN [ncritical |-> 0, lines |-> <<>>]
  ELSE LET rest == to_stderr_all_loop_head(h, e, h[tmperr].next)
       IN  [ncritical |-> (IF h[e].is_warning = 0 THEN 1 ELSE 0)
                            + rest.ncritical,
            lines |-> <<gal_error_to_string(h[e])>> \o rest.lines]

\* The 'for' loop of gal_error_to_stderr_all from 'tmperr' on, over the
\* chain that starts at 'e': the lines handed to error(EXIT_SUCCESS, 0,
\* errstr), one per node, and the increments of 'ncritical'.
RECURSIVE to_stderr_all_loop(_, _, _)
to_stderr_all_loop(h, e, tmperr) ==
  IF tmperr = NULL
  THEN [ncritical |-> 0, lines |-> <<>>]
  ELSE LET rest == to_stderr_all_loop(h, e, h[tmperr].next)
       IN  [ncritical |-> (IF h[e].is_warning = 0 THEN 1 ELSE 0)
                            + rest.ncritical,
            lines |-> <<gal_error_to_string(h[tmperr])>> \o rest.lines]

\* gal_error_to_stderr_all(err, verbose): what it returns and writes.
gal_error_to_stderr_all(h, e) ==
  IF e = NULL
  THEN [ncritical |-> 0, lines |-> <<>>]
  ELSE to_stderr_all_loop(h, e, e)

\* gal_error_occurred as it would be if it looked at every node.
gal_error_occurred_any(h, e) ==
  IF \E n \in Range(Nodes(h, e)) : h[n].is_warning = 0 THEN 1 ELSE 0

\* gal_error_occurred(err)
gal_error_occurred(h, e) ==
  IF e = NULL \/ h[e].is_warning # 0 THEN 0 ELSE 1

--------------------------------------------------------------------------
(* Building and changing the chain.  Each operator is the C function of  *)
(* the same name as a function of the heap 'h' and of the pointer 'e'    *)
(* that its 'err' argument points to.                                    *)

\* gal_error_allocate: a calloc'ed node with the given fields.
gal_error_allocate(lib_code, code, back_msg, is_warning) ==
  [code |-> code, lib_code |-> lib_code, type |-> 0,
   is_warning |-> is_warning, back_msg |-> back_msg,
   front_msg |-> NULLSTR, next |-> NULL]

\* gal_error_bits_extract as it would be if 'is_warning' were the low byte
\* of the bit string.
gal_error_bits_extract_low_byte(bitstring) ==
  [is_warning |-> Low8(bitstring),
   code       |-> Low8(ShiftRight(bitstring, 8)),
   lib_code   |-> Low8(ShiftRight(bitstring, 16))]

\* gal_error_bits_extract as it would be if both shifts were by 8 bits.
gal_error_bits_extract_one_shift(bitstring) ==
  [is_warning |-> IF bitstring % 2 # 0 THEN 1 ELSE 0,
   code       |-> Low8(ShiftRight(bitstring, 8)),
   lib_code   |-> Low8(ShiftRight(bitstring, 8))]

\* gal_error_bits_extract
gal_error_bits_extract(bitstring) ==
  [is_warning |-> IF bitstring % 2 # 0 THEN 1 ELSE 0,
   code       |-> Low8(ShiftRight(bitstring, 8)),
   lib_code   |-> Low8(ShiftRight(bitstring, 16))]

\* What a call leaves when it changes nothing.
Same(h, e) == [heap |-> h, err |-> e, status |-> RUNNING, stderr |-> <<>>]

\* gal_error_add_back_msg as it would be without 'newerr->next = *err'.
gal_error_add_back_msg_no_link(h, e, back_msg, bitstring) ==
  IF back_msg = NULLSTR
  THEN Same(h, e)
  ELSE LET x      == gal_error_bits_extract(bitstring)
           newerr == gal_error_allocate(x.lib_code, x.code, back_msg,
                                        x.is_warning)
       IN  Same(Append(h, newerr), Len(h) + 1)

\* gal_error_add_back_msg as it would be without its test of 'back_msg'.
gal_error_add_back_msg_no_test(h, e, back_msg, bitstring) ==
  LET x      == gal_error_bits_extract(bitstring)
      newerr == gal_error_allocate(x.lib_code, x.code, back_msg,
                                   x.is_warning)
  IN  Same(Append(h, [newerr EXCEPT !.next = e]), Len(h) + 1)

\* gal_error_add_back_msg(&e, back_msg, bitstring)
gal_error_add_back_msg(h, e, back_msg, bitstring) ==
  IF back_msg = NULLSTR
  THEN Same(h, e)
  ELSE LET x      == gal_error_bits_extract(bitstring)
           newerr == gal_error_allocate(x.lib_code, x.code, back_msg,
                                        x.is_warning)
       IN  Same(Append(h, [newerr EXCEPT !.next = e]), Len(h) + 1)

\* The message of the error(EXIT_FAILURE, ...) call of
\* gal_error_add_front_msg.
FrontExistsMsg(code) ==
  "gal_error_add_front_msg: A frontend error message already exists "
  \o "for the given error " \o ToString(code) \o ". If you wish to replace "
  \o "it then pass '1' to the replace flag while calling the function."

\* gal_error_add_front_msg as it would be if it never looked at 'replace'.
gal_error_add_front_msg_always(h, e, front_msg, replace) ==
  IF e = NULL \/ front_msg = NULLSTR
  THEN Same(h, e)
  ELSE Same([h EXCEPT ![e].front_msg = front_msg], e)

\* gal_error_add_front_msg as it would be if it kept a front message that
\* exists, whatever 'replace' is.
gal_error_add_front_msg_keep(h, e, front_msg, replace) ==
  IF e = NULL \/ front_msg = NULLSTR
  THEN Same(h, e)
  ELSE IF h[e].front_msg # NULLSTR
       THEN IF replace = 0
            THEN [heap |-> h, err |-> e, status |-> EXIT_FAILURE,
                  stderr |-> <<FrontExistsMsg(h[e].code)>>]
            ELSE Same(h, e)
       ELSE Same([h EXCEPT ![e].front_msg = front_msg], e)

\* gal_error_add_front_msg as it would be without its test of 'front_msg'.
gal_error_add_front_msg_no_test(h, e, front_msg, replace) ==
  IF e = NULL
  THEN Same(h, e)
  ELSE IF h[e].front_msg # NULLSTR /\ replace = 0
       THEN [heap |-> h, err |-> e, status |-> EXIT_FAILURE,
             stderr |-> <<FrontExistsMsg(h[e].code)>>]
       ELSE Same([h EXCEPT ![e].front_msg = front_msg], e)

\* gal_error_add_front_msg(&e, front_msg, replace)
gal_error_add_front_msg(h, e, front_msg, replace) ==
  IF e = NULL \/ front_msg = NULLSTR
  THEN Same(h, e)
  ELSE IF h[e].front_msg # NULLSTR /\ replace = 0
       THEN [heap |-> h, err |-> e, status |-> EXIT_FAILURE,
             stderr |-> <<FrontExistsMsg(h[e].code)>>]
       ELSE Same([h EXCEPT ![e].front_msg = front_msg], e)

\* The loop as it would be without its gal_error_add_front_msg call.
RECURSIVE reverse_loop_no_front(_, _, _)
reverse_loop_no_front(h, e, correctorder) ==
  IF e = NULL
  THEN Same(h, correctorder)
  ELSE LET bitstring ==
             BitOr(ShiftLeft(BitOr(ShiftLeft(h[e].lib_code, 8), h[e].code), 8),
                   h[e].is_warning)
           a == gal_error_add_back_msg(h, correctorder, h[e].back_msg,
                                       bitstring)
       IN  reverse_loop_no_front(a.heap, a.heap[e].next, a.err)

\* The loop below as it would be if the front message were given to the
\* node that is visited, not to the accumulator.
RECURSIVE reverse_loop_front_on_visited(_, _, _)
reverse_loop_front_on_visited(h, e, correctorder) ==
  IF e = NULL
  THEN Same(h, correctorder)
  ELSE LET bitstring ==
             BitOr(ShiftLeft(BitOr(ShiftLeft(h[e].lib_code, 8), h[e].code), 8),
                   h[e].is_warning)
           a == gal_error_add_back_msg(h, correctorder, h[e].back_msg,
                                       bitstring)
           f == gal_error_add_front_msg(a.heap, e, h[e].front_msg, 0)
       IN  IF f.status = EXIT_FAILURE
           THEN [f EXCEPT !.err = e]
           ELSE reverse_loop_front_on_visited(f.heap, f.heap[e].next, a.err)

\* The loop below as it would be if 'bitstring' were made of 'lib_code' and
\* 'code' only.
RECURSIVE reverse_loop_no_warning(_, _, _)
reverse_loop_no_warning(h, e, correctorder) ==
  IF e = NULL
  THEN Same(h, correctorder)
  ELSE LET bitstring ==
             ShiftLeft(BitOr(ShiftLeft(h[e].lib_code, 8), h[e].code), 8)
           a == gal_error_add_back_msg(h, correctorder, h[e].back_msg,
                                       bitstring)
           f == gal_error_add_front_msg(a.heap, a.err, h[e].front_msg, 0)
       IN  IF f.status = EXIT_FAILURE
           THEN [f EXCEPT !.err = e]
           ELSE reverse_loop_no_warning(f.heap, f.heap[e].next, f.err)

\* The 'while' loop of gal_error_reverse: 'e' is *err, 'correctorder' the
\* accumulator.
RECURSIVE reverse_loop(_, _, _)
reverse_loop(h, e, correctorder) ==
  IF e = NULL
  THEN Same(h, correctorder)
  ELSE LET bitstring ==
             BitOr(ShiftLeft(BitOr(ShiftLeft(h[e].lib_code, 8), h[e].code), 8),
                   h[e].is_warning)
           a == gal_error_add_back_msg(h, correctorder, h[e].back_msg,
                                       bitstring)
           f == gal_error_add_front_msg(a.heap, a.err, h[e].front_msg, 0)
       IN  IF f.status = EXIT_FAILURE
           THEN [f EXCEPT !.err = e]
           ELSE reverse_loop(f.heap, f.heap[e].next, f.err)

\* gal_error_reverse as it would be without its test of '(*err)->next'.
gal_error_reverse_no_test(h, e) ==
  IF e # NULL
  THEN reverse_loop(h, e, NULL)
  ELSE Same(h, e)

\* gal_error_reverse(&e)
gal_error_reverse(h, e) ==
  IF e = NULL
  THEN Same(h, e)
  ELSE IF h[e].next # NULL
       THEN reverse_loop(h, e, NULL)
       ELSE Same(h, e)

\* The loop as it would be if it compared the library as well.
RECURSIVE check_loop_lib(_, _, _)
check_loop_lib(h, tmperr, bits) ==
  IF tmperr = NULL THEN 0
  ELSE IF /\ h[tmperr].code = bits.code
          /\ h[tmperr].lib_code = bits.lib_code THEN 1
  ELSE check_loop_lib(h, h[tmperr].next, bits)

\* The 'for' loop of gal_error_check from 'tmperr' on.
RECURSIVE check_loop(_, _, _)
check_loop(h, tmperr, code) ==
  IF tmperr = NULL THEN 0
  ELSE IF h[tmperr].code = code THEN 1
  ELSE check_loop(h, h[tmperr].next, code)

\* gal_error_check as it would be if it compared the library as well.
gal_error_check_lib(h, e, bitstring) ==
  check_loop_lib(h, e, gal_error_bits_extract(bitstring))

\* gal_error_check(&e, bitstring)
gal_error_check(h, e, bitstring) ==
  check_loop(h, e, gal_error_bits_extract(bitstring).code)

\* gal_error(&e, lib_code, error_code, is_warning, format, ...), 'errstr'
\* being the text vasprintf makes of 'format' and its arguments.
gal_error(h, e, lib_code, error_code, is_warning, errstr) ==
  LET code == GAL_ERROR_BITSET(lib_code, error_code, is_warning)
  IN  gal_error_add_back_msg(h, e, errstr, code)

\* gal_error_exists_leave_func(&e, lib_code, error_code, is_warning, func):
\* the chain it leaves and the value it returns.
gal_error_exists_leave_func(h, e, lib_code, error_code, is_warning, func) ==
  IF e # NULL
  THEN [out |-> gal_error(h, e, lib_code, error_code, is_warning,
                          func \o ": error point is not empty, will not "
                               \o "continue"),
        ret |-> 1]
  ELSE [out |-> Same(h, e), ret |-> 0]

--------------------------------------------------------------------------
(* The boundary guard of the programs. *)

\* gal_error_print(error), which gal_errorinprogram calls: the printing of
\* the whole chain that returns the number of breaking errors.
gal_error_print(h, e) == gal_error_to_stderr_all(h, e)

\* gal_errorinprogram as it would be if it left before the printing.
gal_errorinprogram_exit_first(h, e) ==
  LET p == gal_error_print(h, e)
  IN  [heap |-> h, err |-> e,
       status |-> IF p.ncritical # 0 THEN EXIT_FAILURE ELSE RUNNING,
       stderr |-> IF p.ncritical # 0 THEN <<>> ELSE p.lines]

\* gal_errorinprogram(error)
gal_errorinprogram(h, e) ==
  LET p == gal_error_print(h, e)
  IN  [heap |-> h, err |-> e,
       status |-> IF p.ncritical # 0 THEN EXIT_FAILURE ELSE RUNNING,
       stderr |-> p.lines]

--------------------------------------------------------------------------
(* The state machine: a running program calls one function at a time.    *)

\* Arguments (lib_code, error_code, is_warning) given to gal_error and to
\* gal_error_exists_leave_func: three values that fit their fields, an
\* is_warning that is neither 0 nor 1, and an error_code that does not fit
\* in 8 bits.
IntTriples == { <<3, 5, 0>>, <<3, 5, 2>>, <<1, 517, 1>> }

FuncNames == {"gal_cosmology_age"}

Init ==
  /\ heap = <<>>
  /\ err = NULL
  /\ status = RUNNING
  /\ stderr = <<>>
  /\ ret = VOID
  /\ last = [op |-> "none"]

\* The call 'call' ran, left 'r' and returned 'v'.  A call is made while
\* the process runs and is left out when it would pass the bounds.
Apply(r, v, call) ==
  /\ Len(r.heap) <= MaxAlloc
  /\ Len(Nodes(r.heap, r.err)) <= MaxLen
  /\ heap' = r.heap
  /\ err' = r.err
  /\ status' = r.status
  /\ stderr' = r.stderr
  /\ ret' = IF r.status = RUNNING THEN v ELSE VOID
  /\ last' = call

AddBackMsg ==
  /\ status = RUNNING
  /\ \E a \in BackArgs :
       Apply(gal_error_add_back_msg(heap, err, a[1], a[2]), VOID,
             [op |-> "add_back_msg", back_msg |-> a[1], bitstring |-> a[2]])

AddFrontMsg ==
  /\ status = RUNNING
  /\ \E front_msg \in FrontMessages \cup {NULLSTR}, replace \in {0, 1} :
       Apply(gal_error_add_front_msg(heap, err, front_msg, replace), VOID,
             [op |-> "add_front_msg", front_msg |-> front_msg,
              replace |-> replace])

Reverse ==
  /\ status = RUNNING
  /\ Apply(gal_error_reverse(heap, err), VOID, [op |-> "reverse"])

Check ==
  /\ status = RUNNING
  /\ \E bitstring \in CheckBitstrings :
       Apply(Same(heap, err), gal_error_check(heap, err, bitstring),
             [op |-> "check", bitstring |-> bitstring])

Occurred ==
  /\ status = RUNNING
  /\ Apply(Same(heap, err), gal_error_occurred(heap, err),
           [op |-> "occurred"])

\* gal_error_to_string on a node of the chain.
ToStringCall ==
  /\ status = RUNNING
  /\ \E n \in Range(Nodes(heap, err)) :
       Apply(Same(heap, err), gal_error_to_string(heap[n]),
             [op |-> "to_string", node |-> n])

\* gal_error_to_stderr_all as it would be if its loop advanced the caller's
\* pointer, as the loop of gal_error_reverse does.
ToStderrAllAdvancing ==
  /\ status = RUNNING
  /\ LET p == gal_error_to_stderr_all(heap, err)
     IN  Apply([Same(heap, NULL) EXCEPT !.stderr = p.lines], p.ncritical,
               [op |-> "to_stderr_all"])

ToStderrAll ==
  /\ status = RUNNING
  /\ LET p == gal_error_to_stderr_all(heap, err)
     IN  Apply([Same(heap, err) EXCEPT !.stderr = p.lines], p.ncritical,
               [op |-> "to_stderr_all"])

ErrorInProgram ==
  /\ status = RUNNING
  /\ Apply(gal_errorinprogram(heap, err), VOID, [op |-> "errorinprogram"])

GalError ==
  /\ status = RUNNING
  /\ \E t \in IntTriples, errstr \in {"division by zero"} :
       Apply(gal_error(heap, err, t[1], t[2], t[3], errstr), VOID,
             [op |-> "gal_error", lib_code |-> t[1], error_code |-> t[2],
              is_warning |-> t[3], errstr |-> errstr])

ExistsLeaveFunc ==
  /\ status = RUNNING
  /\ \E t \in IntTriples, func \in FuncNames :
       LET x == gal_error_exists_leave_func(heap, err, t[1], t[2], t[3],
                                            func)
       IN  Apply(x.out, x.ret,
                 [op |-> "exists_leave_func", lib_code |-> t[1],
                  error_code |-> t[2], is_warning |-> t[3], func |-> func])

Next ==
  \/ AddBackMsg
  \/ AddFrontMsg
  \/ Reverse
  \/ Check
  \/ Occurred
  \/ ToStringCall
  \/ ToStderrAll
  \/ ErrorInProgram

Spec == Init /\ [][Next]_vars

\* gal_error_add_back_msg called by the program itself, with a message or
\* without one.
ProducerBackArgs ==
  { <<"division by zero", GAL_ERROR_BITSET(3, 5, 0)>>,
    <<NULLSTR, GAL_ERROR_BITSET(1, 5, 0)>> }

AddBackMsgDirect ==
  /\ status = RUNNING
  /\ \E a \in ProducerBackArgs :
       Apply(gal_error_add_back_msg(heap, err, a[1], a[2]), VOID,
             [op |-> "add_back_msg", back_msg |-> a[1], bitstring |-> a[2]])

\* The program that makes and rearranges a chain: every call that adds a
\* record, sets a front message or reverses the chain.
NextProducers ==
  \/ AddBackMsgDirect
  \/ AddFrontMsg
  \/ Reverse
  \/ GalError
  \/ ExistsLeaveFunc

SpecProducers == Init /\ [][NextProducers]_vars

\* The program that makes a chain and formats its records.
NextPrint ==
  \/ AddBackMsg
  \/ GalError
  \/ AddFrontMsg
  \/ ToStringCall

SpecPrint == Init /\ [][NextPrint]_vars

\* The encoder and the decoder by themselves: GAL_ERROR_BITSET on three
\* 8-bit values, then gal_error_bits_extract on the bit string it made.
\* 'last' holds the three values that went in, 'ret' what came out of the
\* most recent step.
ByteSamples == {0, 1, 2, 3, 127, 128, 254, 255}

WarningValues == 0 .. 255

InitCodec ==
  /\ heap = <<>>
  /\ err = NULL
  /\ status = RUNNING
  /\ stderr = <<>>
  /\ ret = VOID
  /\ \E lib_code \in ByteSamples, code \in ByteSamples,
        is_warning \in WarningValues :
       last = [op |-> "input", lib_code |-> lib_code, code |-> code,
               is_warning |-> is_warning]

Encode ==
  /\ last.op = "input"
  /\ ret' = GAL_ERROR_BITSET(last.lib_code, last.code, last.is_warning)
  /\ last' = [last EXCEPT !.op = "encode"]
  /\ UNCHANGED <<heap, err, status, stderr>>

Decode ==
  /\ last.op = "encode"
  /\ ret' = [bitstring |-> ret, out |-> gal_error_bits_extract(ret)]
  /\ last' = [last EXCEPT !.op = "decode"]
  /\ UNCHANGED <<heap, err, status, stderr>>

NextCodec ==
  \/ Encode
  \/ Decode

SpecCodec == InitCodec /\ [][NextCodec]_vars

--------------------------------------------------------------------------
(* State functions the properties are written with. *)

\* The nodes of the caller's chain, head first.
Chain == Nodes(heap, err)

\* The fields of a node that describe the error (all but the link).
Fields(n) ==
  [lib_code |-> n.lib_code, code |-> n.code, is_warning |-> n.is_warning,
   back_msg |-> n.back_msg, front_msg |-> n.front_msg]

\* The errors of the chain that starts at 'e', head first.
Records(h, e) == [i \in 1..Len(Nodes(h, e)) |-> Fields(h[Nodes(h, e)[i]])]

\* A sequence backwards.
Backwards(s) == [i \in 1..Len(s) |-> s[Len(s) + 1 - i]]

\* Every node that was allocated and not freed.
Allocated == 1..Len(heap)

\* Bits 8-15 and 16-23 of an error identifier.
Bits8to15(bitstring) == (bitstring \div 256) % 256

Bits16to23(bitstring) == (bitstring \div 65536) % 256

\* The node 'n' is a breaking error (not a warning).
IsBreaking(n) == heap[n].is_warning = 0

--------------------------------------------------------------------------
(* The boundary guard and the printing of the chain. *)

\* C1: the boundary guard ends the process with a failure status exactly
\* when some record of the chain, at any position, is not a warning.
C1_GuardExitsIffSomeBreaking ==
  last.op = "errorinprogram" =>
    ((status = EXIT_FAILURE) <=> (\E n \in Range(Chain) : IsBreaking(n)))

\* C2: gal_error_to_stderr_all returns the number of records of the chain
\* whose own is_warning is 0.
C2_PrintAllCountsBreaking ==
  last.op = "to_stderr_all" =>
    ret = Cardinality({ i \in 1..Len(Chain) : IsBreaking(Chain[i]) })

\* C3: gal_error_to_stderr_all writes one line per record, the i-th line
\* being gal_error_to_string of the i-th record from the head, and nothing
\* for the empty chain.
C3_PrintAllLines ==
  last.op = "to_stderr_all" =>
    /\ Len(stderr) = Len(Chain)
    /\ \A i \in 1..Len(Chain) :
         stderr[i] = gal_error_to_string(heap[Chain[i]])

\* C3 happens: three records were printed and the lines of the head and of
\* the tail differ.
C3_Witness ==
  /\ last.op = "to_stderr_all"
  /\ Len(Chain) = 3
  /\ Len(stderr) = 3
  /\ stderr[1] # stderr[3]
  /\ heap[Chain[2]].front_msg # NULLSTR

--------------------------------------------------------------------------
(* Reversal. *)

\* C4: gal_error_reverse on a chain of two or more records returns and
\* leaves the same records in inverted order, the lib_code, code,
\* is_warning, back_msg and front_msg of each one kept.
C4_ReverseInvertsOrder ==
  [][(last'.op = "reverse" /\ Len(Chain) >= 2) =>
       /\ status' = RUNNING
       /\ Records(heap', err') = Backwards(Records(heap, err))]_vars

\* C4 happens: a chain of three records, the records of its two ends
\* different and one below the head with a front message, was reversed.
C4_Witness ==
  /\ last.op = "reverse"
  /\ Len(Chain) = 3
  /\ Fields(heap[Chain[1]]) # Fields(heap[Chain[3]])
  /\ heap[Chain[1]].front_msg # NULLSTR
  /\ heap[Chain[1]].is_warning = 1

\* C5: after gal_error_reverse on a chain of two or more records the nodes
\* still allocated are exactly the nodes of the chain (the nodes it
\* replaced were freed).
C5_ReverseFreesSuperseded ==
  (last.op = "reverse" /\ Len(Chain) >= 2) => Allocated = Range(Chain)

--------------------------------------------------------------------------
(* Queries. *)

\* C6: gal_error_occurred is false on the empty chain, false when the head
\* is a warning whatever lies beneath it, and true when the head is not a
\* warning.
C6_OccurredLooksAtHead ==
  last.op = "occurred" =>
    /\ err = NULL => ret = 0
    /\ (err # NULL /\ ~IsBreaking(err)) => ret = 0
    /\ (err # NULL /\ IsBreaking(err)) => ret = 1

\* C6 happens: the question was asked of a chain whose head is a warning
\* above a breaking error.
C6_Witness ==
  /\ last.op = "occurred"
  /\ Len(Chain) >= 2
  /\ ~IsBreaking(Chain[1])
  /\ IsBreaking(Chain[2])
  /\ ret = 0

\* C7: gal_error_check returns true exactly when some record of the chain
\* has its code equal to bits 8-15 of the identifier, whatever the library
\* and the severity of either; on the empty chain it returns false.
C7_CheckMatchesCodeOnly ==
  last.op = "check" =>
    /\ ret \in {0, 1}
    /\ ret = 1 <=>
         \E n \in Range(Chain) : heap[n].code = Bits8to15(last.bitstring)

\* C7 happens: an identifier of library 99 with the warning bit was found
\* in a chain that holds only breaking errors of library 1.
C7_Witness ==
  /\ last.op = "check"
  /\ last.bitstring = GAL_ERROR_BITSET(99, 5, 1)
  /\ ret = 1
  /\ Chain # <<>>
  /\ \A n \in Range(Chain) : heap[n].lib_code = 1 /\ heap[n].is_warning = 0

--------------------------------------------------------------------------
(* Pushing an error and adding the caller's message. *)

\* C8: gal_error_add_back_msg with a message makes a new node the head:
\* its lib_code, code and is_warning are those of the identifier, its
\* back_msg the message, its front_msg unset and its next the former head;
\* the nodes that existed and their order are unchanged.
C8_PushBackMakesHead ==
  [][(last'.op = "add_back_msg" /\ last'.back_msg # NULLSTR) =>
       /\ status' = RUNNING
       /\ err' \notin Allocated \cup {NULL}
       /\ Fields(heap'[err']) =
            [lib_code   |-> Bits16to23(last'.bitstring),
             code       |-> Bits8to15(last'.bitstring),
             is_warning |-> last'.bitstring % 2,
             back_msg   |-> last'.back_msg,
             front_msg  |-> NULLSTR]
       /\ heap'[err'].next = err
       /\ \A n \in Allocated : heap'[n] = heap[n]
       /\ Nodes(heap', err') = <<err'>> \o Chain]_vars

\* C8 happens: a warning whose identifier has the low byte 3 was pushed on
\* a chain of two records.
C8_Witness ==
  /\ last.op = "add_back_msg"
  /\ last.back_msg = "overflow"
  /\ last.bitstring = GAL_ERROR_BITSET(99, 7, 3)
  /\ Len(Chain) = 3
  /\ heap[err].is_warning = 1

\* C9: gal_error_add_back_msg without a message changes nothing of the
\* chain, whatever the identifier.
C9_PushBackNoMessage ==
  [][(last'.op = "add_back_msg" /\ last'.back_msg = NULLSTR) =>
       /\ status' = RUNNING
       /\ heap' = heap
       /\ err' = err]_vars

\* C9 happens: the call without a message was made on a chain of two
\* records.
C9_Witness ==
  /\ last.op = "add_back_msg"
  /\ last.back_msg = NULLSTR
  /\ Len(Chain) = 2

\* C10: gal_error_add_front_msg with a message and replace = 0 on a head
\* that has a front message ends the process with a failure status, and
\* changes neither that front message nor the chain.
C10_AddFrontTwiceIsFatal ==
  [][(/\ last'.op = "add_front_msg"
      /\ last'.front_msg # NULLSTR
      /\ last'.replace = 0
      /\ err # NULL
      /\ heap[err].front_msg # NULLSTR) =>
       /\ status' = EXIT_FAILURE
       /\ heap' = heap
       /\ err' = err]_vars

\* C10 happens: the process ended in gal_error_add_front_msg, given a
\* message other than the one the head has.
C10_Witness ==
  /\ last.op = "add_front_msg"
  /\ status = EXIT_FAILURE
  /\ err # NULL
  /\ heap[err].front_msg \notin {NULLSTR, last.front_msg}

\* C11: gal_error_add_front_msg with a message, on a chain whose head has
\* no front message or with replace = 1, makes the message the front
\* message of the head and changes nothing else: no other field of the
\* head, no other node, not the length of the chain.
C11_AddFrontSetsHead ==
  [][(/\ last'.op = "add_front_msg"
      /\ last'.front_msg # NULLSTR
      /\ err # NULL
      /\ (heap[err].front_msg = NULLSTR \/ last'.replace = 1)) =>
       /\ status' = RUNNING
       /\ err' = err
       /\ Len(heap') = Len(heap)
       /\ heap'[err].front_msg = last'.front_msg
       /\ [Fields(heap'[err]) EXCEPT !.front_msg = NULLSTR] =
            [Fields(heap[err]) EXCEPT !.front_msg = NULLSTR]
       /\ heap'[err].next = heap[err].next
       /\ \A n \in Allocated \ {err} : heap'[n] = heap[n]
       /\ Nodes(heap', err') = Chain]_vars

\* C11 happens: with replace = 1 the head of a chain of two records, the
\* other one with another front message, has the message of the call.
C11_Witness ==
  /\ last.op = "add_front_msg"
  /\ last.replace = 1
  /\ status = RUNNING
  /\ Len(Chain) = 2
  /\ heap[Chain[1]].front_msg = last.front_msg
  /\ heap[Chain[2]].front_msg \notin {NULLSTR, last.front_msg}

\* C12: gal_error_add_front_msg on the empty chain, or without a message,
\* changes nothing and does not end the process, whatever 'replace' is and
\* even when the head has a front message.
C12_AddFrontNoOp ==
  [][(/\ last'.op = "add_front_msg"
      /\ (err = NULL \/ last'.front_msg = NULLSTR)) =>
       /\ status' = RUNNING
       /\ heap' = heap
       /\ err' = err]_vars

\* C12 happens: the call without a message and with replace = 0 was made
\* on a head that has a front message.
C12_Witness ==
  /\ last.op = "add_front_msg"
  /\ last.front_msg = NULLSTR
  /\ last.replace = 0
  /\ status = RUNNING
  /\ err # NULL
  /\ heap[err].front_msg # NULLSTR

\* C13: for all lib_code, code and is_warning in 0..255, decoding the bit
\* string that GAL_ERROR_BITSET makes of them gives the same lib_code and
\* the same code.
C13_DecodeInvertsEncode ==
  last.op = "decode" =>
    /\ ret.out.lib_code = last.lib_code
    /\ ret.out.code = last.code

\* C13 happens: a bit string with all three bytes in use was decoded.
C13_Witness ==
  /\ last.op = "decode"
  /\ last.lib_code = 254
  /\ last.code = 127
  /\ last.is_warning = 255
  /\ ret.out.lib_code = 254
  /\ ret.out.code = 127

\* C14: the decoded is_warning is the parity of the whole bit string, 1
\* when it is odd and 0 when it is even; so an encoded is_warning of 2 is
\* decoded as 0, and the decoded value is the encoded one only for 0 and 1.
C14_WarningIsParity ==
  last.op = "decode" =>
    /\ ret.out.is_warning = ret.bitstring % 2
    /\ (last.is_warning = 2 => ret.out.is_warning = 0)
    /\ (ret.out.is_warning = last.is_warning <=> last.is_warning \in {0, 1})

\* C14 happens: an is_warning of 2 was encoded and decoded as 0.
C14_Witness ==
  /\ last.op = "decode"
  /\ last.is_warning = 2
  /\ ret.out.is_warning = 0

\* C15: GAL_ERROR_BITSET, as gal_error uses it, clamps each of its inputs
\* to 0..255, so that no input spills into the bits of another field: the
\* record that gal_error pushes has the clamped lib_code and the clamped
\* code.
C15_EncoderClamps ==
  LET Clamped(x) == IF x < 0 THEN 0 ELSE IF x > 255 THEN 255 ELSE x
  IN  (last.op = "gal_error" /\ status = RUNNING) =>
        /\ heap[err].lib_code = Clamped(last.lib_code)
        /\ heap[err].code = Clamped(last.error_code)

C17_BackMsgPresent ==
  \A n \in Range(Chain) : heap[n].back_msg # NULLSTR

\* C17 happens: gal_error_add_back_msg was called without a message on a
\* chain of two records.
C17_Witness ==
  /\ last.op = "add_back_msg"
  /\ last.back_msg = NULLSTR
  /\ Len(Chain) = 2

\* C18: a front message that is set stays what it is, unless
\* gal_error_add_front_msg is called with replace = 1: the records of the
\* chain after a call (read backwards after gal_error_reverse, and without
\* the new head after a push) are as many as before and each has the front
\* message it had, when it had one.
C18_FrontMsgKept ==
  [][LET before  == Chain
         after   == Nodes(heap', err')
         old     == [i \in 1..Len(before) |-> heap[before[i]]]
         new     == [i \in 1..Len(after) |-> heap'[after[i]]]
         aligned == IF last'.op = "reverse" THEN Backwards(new)
                    ELSE IF Len(new) > Len(old) THEN Tail(new)
                    ELSE new
     IN  /\ Len(aligned) = Len(old)
         /\ \A i \in 1..Len(old) :
              (old[i].front_msg # NULLSTR
                 /\ aligned[i].front_msg # old[i].front_msg)
                => (last'.op = "add_front_msg" /\ last'.replace = 1)]_vars

\* C18 happens: a chain whose first two records have two different front
\* messages was reversed.
C18_Witness ==
  /\ last.op = "reverse"
  /\ Len(Chain) >= 2
  /\ heap[Chain[1]].front_msg # NULLSTR
  /\ heap[Chain[2]].front_msg \notin {NULLSTR, heap[Chain[1]].front_msg}

\* C19: gal_error_reverse on a chain of no record or of one record changes
\* nothing.
C19_ReverseShortNoOp ==
  [][(last'.op = "reverse" /\ Len(Chain) <= 1) =>
       /\ status' = RUNNING
       /\ heap' = heap
       /\ err' = err]_vars

\* C19 happens: gal_error_reverse was called on a chain of one record, the
\* only one allocated, that has a front message.
C19_Witness ==
  /\ last.op = "reverse"
  /\ Len(Chain) = 1
  /\ Len(heap) = 1
  /\ heap[err].front_msg # NULLSTR

\* C20: when gal_errorinprogram has run on a chain that holds a breaking
\* record, one line for every record of the chain, warnings included, has
\* been written, head first, whether or not the process has ended: the
\* process never ends before the printing or in the middle of it.
C20_PrintedBeforeExit ==
  (last.op = "errorinprogram" /\ \E n \in Range(Chain) : IsBreaking(n)) =>
    /\ Len(stderr) = Len(Chain)
    /\ \A i \in 1..Len(Chain) : stderr[i] = gal_error_to_string(heap[Chain[i]])

\* C20 happens: the guard ended the process on a chain of three records,
\* one of them a warning, after three lines.
C20_Witness ==
  /\ last.op = "errorinprogram"
  /\ status = EXIT_FAILURE
  /\ Len(Chain) = 3
  /\ \E n \in Range(Chain) : ~IsBreaking(n)
  /\ Len(stderr) = 3

\* C21: gal_error_reverse always returns: on every chain made by
\* gal_error_add_back_msg, gal_error, gal_error_add_front_msg and
\* gal_error_reverse, the gal_error_add_front_msg it calls with replace = 0
\* finds a record without a front message, so the process goes on and
\* nothing is written.
C21_ReverseReturns ==
  last.op = "reverse" => (status = RUNNING /\ stderr = <<>>)

\* C21 happens: a chain of three records that all have a front message was
\* reversed.
C21_Witness ==
  /\ last.op = "reverse"
  /\ status = RUNNING
  /\ Len(Chain) = 3
  /\ \A n \in Range(Chain) : heap[n].front_msg # NULLSTR

\* C22: gal_error_reverse twice gives the chain back: when a call of
\* gal_error_reverse has returned, one more call of it leaves the records
\* the chain had before the first call, in the same order and with the
\* same lib_code, code, is_warning, back_msg and front_msg.
C22_ReverseTwice ==
  [][last'.op = "reverse" =>
       LET again == gal_error_reverse(heap', err')
       IN  /\ status' = RUNNING
           /\ again.status = RUNNING
           /\ Records(again.heap, again.err) = Records(heap, err)]_vars

\* C22 happens: a chain of three records, a warning and a breaking error
\* among them, the head with a front message and its next without one, was
\* reversed.
C22_Witness ==
  /\ last.op = "reverse"
  /\ Len(Chain) = 3
  /\ heap[Chain[1]].front_msg # NULLSTR
  /\ heap[Chain[2]].front_msg = NULLSTR
  /\ \E n \in Range(Chain) : IsBreaking(n)
  /\ \E n \in Range(Chain) : ~IsBreaking(n)

C24_ExistsLeaveFuncPushesGiven ==
  last.op = "exists_leave_func" =>
    IF ret = 0
    THEN err = NULL
    ELSE /\ ret = 1
         /\ err # NULL
         /\ heap[err].next # NULL
         /\ heap[err].lib_code = last.lib_code
         /\ heap[err].code = last.error_code
         /\ (heap[err].is_warning = 0 <=> last.is_warning = 0)

\* C25: every record that gal_error_add_back_msg, gal_error or
\* gal_error_reverse has put in a chain has an is_warning of 0 or 1,
\* whatever the bit string or the is_warning argument was; so the bit
\* string that gal_error_reverse makes of the record's own fields decodes
\* to the lib_code, code and is_warning of that record.
C25_WarningIsZeroOrOne ==
  \A n \in Allocated :
    LET bitstring ==
          BitOr(ShiftLeft(BitOr(ShiftLeft(heap[n].lib_code, 8),
                                heap[n].code), 8),
                heap[n].is_warning)
    IN  /\ heap[n].is_warning \in {0, 1}
        /\ gal_error_bits_extract(bitstring) =
             [is_warning |-> heap[n].is_warning, code |-> heap[n].code,
              lib_code |-> heap[n].lib_code]

\* C25 happens: gal_error_reverse rebuilt a chain that holds a record made
\* by gal_error with an is_warning of 1 and a breaking record.
C25_Witness ==
  /\ last.op = "reverse"
  /\ Len(Chain) >= 2
  /\ \E n \in Range(Chain) : heap[n].is_warning = 1
  /\ \E n \in Range(Chain) : heap[n].is_warning = 0
  /\ Len(heap) > Len(Chain)

==========================================================================
